---- MODULE Spec2Model ----
(***************************************************************************)
(* Model of app.py, the Streamlit budget dashboard script.                 *)
(*                                                                         *)
(* The script is a linear pipeline that Streamlit re-executes from the top *)
(* on every widget interaction:                                            *)
(*   load_data (cached)  ->  watchlist filter, yearly totals, merge, share *)
(*   ->  sidebar selectors  ->  insight cards  ->  Sankey frames           *)
(*   ->  deep dive.                                                        *)
(*                                                                         *)
(* Text is modelled as sequences of one-character strings, so that the     *)
(* cell-level operations (replace, to_numeric, str[:9]) are computed on    *)
(* the characters.  A float is a record [k, n, d]: k = "num" is the        *)
(* rational n/d in lowest terms (d > 0); k = "nan" is NaN, which is also   *)
(* pandas' missing value; k = "inf" / "ninf" are the two infinities.       *)
(* Arithmetic is exact: binary rounding of finite values is not modelled.  *)
(***************************************************************************)
EXTENDS Integers, Sequences, FiniteSets, TLC

VARIABLES
    file,              \* budget.csv on disk: [exists, rows]
    cache,             \* st.cache_data entry of load_data: [filled, table]
    reads,             \* number of completed read-and-parse of the file
    hit,               \* whether the last load_data call was served from cache
    pc,                \* position of the script run
    outcome,           \* "running", "ok", or the exception that ended the run
    df,                \* module-level df (line 41)
    df_focus,          \* module-level df_focus (lines 52, 59-60)
    yearly_total,      \* module-level yearly_total (lines 55-56)
    year_selected,     \* line 74
    ministry_selected, \* line 76
    metrics,           \* values handed to st.metric (lines 99-106)
    df_2014,           \* line 115
    df_2024,           \* line 132
    data,              \* line 182
    cell,              \* a CSV cell handed to the numeric coercion
    coerced,           \* its coerced value
    x,                 \* an amount handed to inr
    rendered           \* inr's result

vars == <<file, cache, reads, hit, pc, outcome, df, df_focus, yearly_total,
          year_selected, ministry_selected, metrics, df_2014, df_2024, data,
          cell, coerced, x, rendered>>

scriptVars == <<file, cache, reads, hit, pc, outcome, df, df_focus, yearly_total,
                year_selected, ministry_selected, metrics, df_2014, df_2024, data>>

-----------------------------------------------------------------------------
(* Floats *)

Abs(i) == IF i < 0 THEN -i ELSE i

RECURSIVE GCD(_, _)
GCD(a, b) == IF b = 0 THEN a ELSE GCD(b, a % b)

NaN == [k |-> "nan", n |-> 0, d |-> 1]
Inf == [k |-> "inf", n |-> 0, d |-> 1]
NInf == [k |-> "ninf", n |-> 0, d |-> 1]

\* the rational n/d, d # 0, in lowest terms with a positive denominator
Rat(n, d) ==
    LET g == GCD(Abs(n), Abs(d))
        s == IF d < 0 THEN -1 ELSE 1
    IN  [k |-> "num", n |-> (s * n) \div g, d |-> Abs(d) \div g]

Num(i) == [k |-> "num", n |-> i, d |-> 1]

IsNaN(a) == a.k = "nan"
IsNum(a) == a.k = "num"
IsFinite(a) == a.k = "num"

Sign(a) ==
    CASE a.k = "inf" -> 1
      [] a.k = "ninf" -> -1
      [] OTHER -> IF a.n > 0 THEN 1 ELSE IF a.n < 0 THEN -1 ELSE 0

Signed(s) == IF s > 0 THEN Inf ELSE IF s < 0 THEN NInf ELSE NaN

\* IEEE-754 division as numpy/pandas evaluate it: x/0 is +-inf, 0/0 is NaN,
\* nothing raises
FDiv(a, b) ==
    CASE IsNaN(a) \/ IsNaN(b) -> NaN
      [] IsNum(a) /\ IsNum(b) ->
            IF b.n = 0 THEN Signed(Sign(a)) ELSE Rat(a.n * b.d, a.d * b.n)
      [] IsNum(a) -> Num(0)
      [] IsNum(b) -> Signed(Sign(a) * (IF b.n < 0 THEN -1 ELSE 1))
      [] OTHER -> NaN

FMul(a, b) ==
    CASE IsNaN(a) \/ IsNaN(b) -> NaN
      [] IsNum(a) /\ IsNum(b) -> Rat(a.n * b.n, a.d * b.d)
      [] OTHER -> Signed(Sign(a) * Sign(b))

FAdd(a, b) ==
    CASE IsNaN(a) \/ IsNaN(b) -> NaN
      [] IsNum(a) /\ IsNum(b) -> Rat(a.n * b.d + b.n * a.d, a.d * b.d)
      [] IsNum(a) -> b
      [] IsNum(b) -> a
      [] OTHER -> IF a.k = b.k THEN a ELSE NaN

FNeg(a) ==
    CASE IsNum(a) -> Rat(-a.n, a.d)
      [] a.k = "inf" -> NInf
      [] a.k = "ninf" -> Inf
      [] OTHER -> NaN

FSub(a, b) == FAdd(a, FNeg(b))

\* a >= b on floats; every comparison with NaN is False
FGe(a, b) ==
    CASE IsNaN(a) \/ IsNaN(b) -> FALSE
      [] IsNum(a) /\ IsNum(b) -> a.n * b.d >= b.n * a.d
      [] a.k = "inf" -> TRUE
      [] b.k = "ninf" -> TRUE
      [] OTHER -> FALSE

-----------------------------------------------------------------------------
(* Text *)

Digits == <<"0", "1", "2", "3", "4", "5", "6", "7", "8", "9">>

IsDigit(c) == \E i \in 1..10 : Digits[i] = c

DigitVal(c) == (CHOOSE i \in 1..10 : Digits[i] = c) - 1

AllDigits(s) == \A i \in 1..Len(s) : IsDigit(s[i])

RECURSIVE ParseNat(_)
ParseNat(s) ==
    IF s = <<>> THEN 0
    ELSE 10 * ParseNat(SubSeq(s, 1, Len(s) - 1)) + DigitVal(s[Len(s)])

\* the characters that occur in the modelled texts, in code-point order
CharOrder == <<" ", "(", ")", ",", "-", "0", "1", "2", "3", "4", "5", "6",
               "7", "8", "9", "B", "E">>

Ord(c) == CHOOSE i \in 1..Len(CharOrder) : CharOrder[i] = c

\* Python's str < str
RECURSIVE StrLess(_, _)
StrLess(a, b) ==
    IF b = <<>> THEN FALSE
    ELSE IF a = <<>> THEN TRUE
    ELSE IF a[1] = b[1] THEN StrLess(Tail(a), Tail(b))
    ELSE Ord(a[1]) < Ord(b[1])

-----------------------------------------------------------------------------
(* load_data: lines 18-39 *)

DEFENCE == "MINISTRY OF DEFENCE"
FINANCE == "MINISTRY OF FINANCE"
HOME == "MINISTRY OF HOME AFFAIRS"
AGRI_CANON == "MINISTRY OF AGRICULTURE AND FARMERS' WELFARE"
HEALTH == "MINISTRY OF HEALTH AND FAMILY WELFARE"
AGRI_FW == "MINISTRY OF AGRICULTURE AND FARMERS WELFARE"
AGRI_OLD == "MINISTRY OF AGRICULTURE"
RAILWAYS == "MINISTRY OF RAILWAYS"

\* the dict of lines 23-26 with the old name mapped to the other variant
name_map_Chained ==
    [n \in {AGRI_FW, AGRI_OLD} |-> IF n = AGRI_OLD THEN AGRI_FW ELSE AGRI_CANON]

\* the dict handed to df["Ministry Name"].replace (lines 23-26)
name_map == [n \in {AGRI_FW, AGRI_OLD} |-> AGRI_CANON]

\* Series.replace with a dict replaces the cells equal to a key
ReplaceName(n) == IF n \in DOMAIN name_map THEN name_map[n] ELSE n

\* A cell as read_csv delivers it: [k |-> "str", s |-> text], or [k |-> "nan"]
\* for an empty field
CellNaN == [k |-> "nan", s |-> <<>>]
CellStr(s) == [k |-> "str", s |-> s]
ReadCell(s) == IF s = <<>> THEN CellNaN ELSE CellStr(s)

\* Series.replace({',': '', '-': np.nan}) (line 32): no regex, so only a cell
\* that is exactly "," or exactly "-" is replaced
ReplaceCell(c) ==
    IF c.k = "nan" THEN c
    ELSE IF c.s = <<",">> THEN CellStr(<<>>)
    ELSE IF c.s = <<"-">> THEN CellNaN
    ELSE c

\* pd.to_numeric(..., errors='coerce') on the modelled alphabet: an optional
\* sign followed by digits is a number, anything else is NaN
ToNumeric(c) ==
    IF c.k = "nan" THEN NaN
    ELSE IF c.s # <<>> /\ AllDigits(c.s) THEN Num(ParseNat(c.s))
    ELSE IF Len(c.s) >= 2 /\ c.s[1] = "-" /\ AllDigits(Tail(c.s))
         THEN Num(-ParseNat(Tail(c.s)))
    ELSE NaN

\* line 32 applied to the text of one CSV field
Coerce(s) == ToNumeric(ReplaceCell(ReadCell(s)))

\* Series.fillna (line 35)
Fillna(a, b) == IF IsNaN(a) THEN b ELSE a

\* line 35 with the missing total filled from the sum of the two buckets
TotalAllocation_Sum(plan, nonplan, combined) ==
    Fillna(combined, FAdd(plan, nonplan))

\* line 35
TotalAllocation(plan, nonplan, combined) == Fillna(combined, plan)

Min(a, b) == IF a <= b THEN a ELSE b

YearLen == 9

\* .str[:9] (line 38)
CleanYear(y) == SubSeq(y, 1, Min(YearLen, Len(y)))

\* the body of load_data applied to the rows of the file (lines 20-39)
NormalizeRow(r) ==
    LET plan == Coerce(r.plan)
        nonplan == Coerce(r.nonplan)
        combined == Coerce(r.combined)
    IN  [name |-> ReplaceName(r.name),
         year |-> CleanYear(r.year),
         plan |-> plan,
         nonplan |-> nonplan,
         combined |-> combined,
         total |-> TotalAllocation(plan, nonplan, combined)]

load_data_body(rows) == [i \in 1..Len(rows) |-> NormalizeRow(rows[i])]

-----------------------------------------------------------------------------
(* Share calculation: lines 43-60 *)

\* lines 44-50
focus_ministries == <<DEFENCE, FINANCE, HOME, AGRI_CANON, HEALTH>>

Range(s) == {s[i] : i \in DOMAIN s}

\* df[df["Ministry Name"].isin(focus_ministries)] (line 52)
FocusFilter(tbl) == SelectSeq(tbl, LAMBDA r : r.name \in Range(focus_ministries))

YearsOf(tbl) == {tbl[i].year : i \in DOMAIN tbl}

\* Series.sum() as groupby applies it: NaN is skipped, an empty or all-NaN
\* group sums to 0
RECURSIVE SumSkipNa(_)
SumSkipNa(vals) ==
    IF vals = <<>> THEN Num(0)
    ELSE LET rest == SumSkipNa(Tail(vals))
         IN  IF IsNaN(vals[1]) THEN rest ELSE FAdd(vals[1], rest)

TotalsOfYear(tbl, y) ==
    LET rows == SelectSeq(tbl, LAMBDA r : r.year = y)
    IN  [i \in DOMAIN rows |-> rows[i].total]

\* sorted(...) / sort_values("Year") on a set of distinct year labels
RECURSIVE SortYears(_)
SortYears(S) ==
    IF S = {} THEN <<>>
    ELSE LET m == CHOOSE y \in S : \A z \in S : z = y \/ StrLess(y, z)
         IN  <<m>> \o SortYears(S \ {m})

\* df_focus.groupby("Year")["Total Allocation"].sum().reset_index()
\* followed by sort_values("Year") (lines 55-56)
YearlyTotal(tbl) ==
    LET ys == SortYears(YearsOf(tbl))
    IN  [i \in DOMAIN ys |->
            [year |-> ys[i], total |-> SumSkipNa(TotalsOfYear(tbl, ys[i]))]]

\* (Total Allocation / Total Allocation_total) * 100 (line 60)
PercentOfTotal(total, total_total) == FMul(FDiv(total, total_total), Num(100))

\* inner merge on Year, then the share column (lines 59-60); the left
\* table's row order is kept and yearly_total has one row per year
MergeShare(left, yt) ==
    LET kept == SelectSeq(left, LAMBDA r : \E j \in DOMAIN yt : yt[j].year = r.year)
        tot(r) == yt[CHOOSE j \in DOMAIN yt : yt[j].year = r.year].total
    IN  [i \in DOMAIN kept |->
            [name |-> kept[i].name,
             year |-> kept[i].year,
             plan |-> kept[i].plan,
             nonplan |-> kept[i].nonplan,
             combined |-> kept[i].combined,
             total |-> kept[i].total,
             total_total |-> tot(kept[i]),
             pct |-> PercentOfTotal(kept[i].total, tot(kept[i]))]]

-----------------------------------------------------------------------------
(* inr: lines 63-69 *)

LAKH == 100000
THOUSAND == 1000

\* inr with > in place of >= in both tests
inr_Strict(v) ==
    IF FGe(v, Num(LAKH)) /\ v # Num(LAKH)
    THEN [unit |-> "Lakh Cr", value |-> FDiv(v, Num(LAKH)), decimals |-> 1]
    ELSE IF FGe(v, Num(THOUSAND)) /\ v # Num(THOUSAND)
    THEN [unit |-> "Thousand Cr", value |-> FDiv(v, Num(THOUSAND)), decimals |-> 0]
    ELSE [unit |-> "Cr", value |-> v, decimals |-> 0]

\* The rendered text is "Rs<value:.<decimals>f> <unit>"; it is kept as the
\* unit, the value handed to the format and the number of decimals
inr(v) ==
    IF FGe(v, Num(LAKH))
    THEN [unit |-> "Lakh Cr", value |-> FDiv(v, Num(LAKH)), decimals |-> 1]
    ELSE IF FGe(v, Num(THOUSAND))
    THEN [unit |-> "Thousand Cr", value |-> FDiv(v, Num(THOUSAND)), decimals |-> 0]
    ELSE [unit |-> "Cr", value |-> v, decimals |-> 0]

-----------------------------------------------------------------------------
(* Sidebar, insight cards, frames: lines 74-182 *)

Y2014 == <<"2", "0", "1", "4", "-", "2", "0", "1", "5">>
Y2024 == <<"2", "0", "2", "4", "-", "2", "0", "2", "5">>

None == [some |-> FALSE, v |-> <<>>]
Some(v) == [some |-> TRUE, v |-> v]

\* line 74 reading the years of df instead of df_focus
YearOptions_AllRows(focus, full) == SortYears(YearsOf(full))

\* sorted(df_focus["Year"].unique()) (line 74)
YearOptions(focus, full) == SortYears(YearsOf(focus))

\* options=focus_ministries (line 78)
MinistryOptions(focus) == focus_ministries

\* st.selectbox returns one of its options, or None when there are none
Selectbox(options) ==
    IF options = <<>> THEN {None} ELSE {Some(options[i]) : i \in DOMAIN options}

\* df_focus[(Ministry Name == m) & (Year == y)] (lines 92-97)
RowsFor(tbl, m, y) == SelectSeq(tbl, LAMBDA r : r.name = m /\ r.year = y)

\* the four frames that lines 92, 93, 96, 97 index with .iloc[0]
CardFrames(tbl) ==
    <<RowsFor(tbl, DEFENCE, Y2014), RowsFor(tbl, DEFENCE, Y2024),
      RowsFor(tbl, AGRI_CANON, Y2014), RowsFor(tbl, AGRI_CANON, Y2024)>>

\* .iloc[0] raises IndexError on an empty frame
IlocRaises(frames) == \E i \in DOMAIN frames : frames[i] = <<>>

\* the values of lines 92-106, all four frames being non-empty
CardValues(tbl) ==
    LET f == CardFrames(tbl)
        defence_2014 == f[1][1].total
        defence_2024 == f[2][1].total
        agri_share_2014 == f[3][1].pct
        agri_share_2024 == f[4][1].pct
    IN  [defence_growth |-> FDiv(defence_2024, defence_2014),
         defence_2024 |-> inr(defence_2024),
         agri_share_2014 |-> agri_share_2014,
         agri_share_2024 |-> agri_share_2024,
         delta |-> FSub(agri_share_2014, agri_share_2024)]

\* df_focus[df_focus["Year"] == y] (lines 115, 132)
RowsOfYear(tbl, y) == SelectSeq(tbl, LAMBDA r : r.year = y)

\* df_focus[df_focus["Ministry Name"] == ministry_selected] (line 182)
RowsOfMinistry(tbl, m) == SelectSeq(tbl, LAMBDA r : r.name = m)

-----------------------------------------------------------------------------
(* Inputs *)

Y2024BE == Y2024 \o <<" ", "(", "B", "E", ")">>

T0 == <<"0">>
T100 == <<"1", "0", "0">>
T200 == <<"2", "0", "0">>
T300 == <<"3", "0", "0">>
TNeg100 == <<"-", "1", "0", "0">>
T1c000 == <<"1", ",", "0", "0", "0">>
TDash == <<"-">>
TEmpty == <<>>

CsvRow(name, year, plan, nonplan, combined) ==
    [name |-> name, year |-> year, plan |-> plan, nonplan |-> nonplan,
     combined |-> combined]

Row_Defence2014 == CsvRow(DEFENCE, Y2014, T100, T200, T300)
Row_Defence2014Blank == CsvRow(DEFENCE, Y2014, TDash, TDash, TDash)
Row_Agri2014 == CsvRow(AGRI_OLD, Y2014, T100, TDash, TDash)
Row_Home2014 == CsvRow(HOME, Y2014, TNeg100, TDash, TEmpty)
Row_Agri2014Zero == CsvRow(AGRI_CANON, Y2014, T0, T0, T0)
Row_Railways2014 == CsvRow(RAILWAYS, Y2014, T200, TDash, T300)
Row_Defence2024 == CsvRow(DEFENCE, Y2024BE, T300, TDash, TDash)
Row_Agri2024 == CsvRow(AGRI_FW, Y2024, T100, TDash, TDash)
Row_Finance2024 == CsvRow(FINANCE, Y2024, TDash, TDash, T1c000)
Row_Health2024 == CsvRow(HEALTH, Y2024, T200, T100, TEmpty)

\* the candidate rows of budget.csv, in file order
Catalogue ==
    <<Row_Defence2014, Row_Defence2014Blank, Row_Agri2014, Row_Home2014,
      Row_Agri2014Zero, Row_Railways2014, Row_Defence2024, Row_Agri2024,
      Row_Finance2024, Row_Health2024>>

\* the candidate rows when the file is rewritten during the session
CacheCatalogue ==
    <<Row_Defence2014, Row_Agri2014, Row_Defence2024, Row_Agri2024>>

RECURSIVE PickFrom(_, _, _)
PickFrom(cat, S, i) ==
    IF i > Len(cat) THEN <<>>
    ELSE (IF i \in S THEN <<cat[i]>> ELSE <<>>) \o PickFrom(cat, S, i + 1)

Absent == [exists |-> FALSE, rows |-> <<>>]

\* every file holding a sub-sequence of the candidate rows, and no file
Files(cat) ==
    {[exists |-> TRUE, rows |-> PickFrom(cat, S, 1)] : S \in SUBSET DOMAIN cat}
        \cup {Absent}

MaxCellLen == 5
CellAlphabet == {"0", "1", ",", "-"}

\* every text of at most MaxCellLen characters
Cells == UNION {[1..n -> CellAlphabet] : n \in 0..MaxCellLen}

Window == 12

\* amounts in steps of one half around 0 and around the two thresholds of
\* inr, and NaN
Amounts ==
    {Rat(i, 2) : i \in (-Window)..Window}
        \cup {Rat(2 * THOUSAND + i, 2) : i \in (-Window)..Window}
        \cup {Rat(2 * LAKH + i, 2) : i \in (-Window)..Window}
        \cup {NaN}

MaxReads == 2

-----------------------------------------------------------------------------
(* The script *)

Pending == [k |-> "pending", n |-> 0, d |-> 1]
NoMetrics == [set |-> FALSE]
NoRender == [unit |-> "", value |-> Pending, decimals |-> 0]

\* the module namespace at the top of a run
Fresh ==
    /\ pc = "start"
    /\ outcome = "running"
    /\ df = <<>>
    /\ df_focus = <<>>
    /\ yearly_total = <<>>
    /\ year_selected = None
    /\ ministry_selected = None
    /\ metrics = NoMetrics
    /\ df_2014 = <<>>
    /\ df_2024 = <<>>
    /\ data = <<>>

InitSession(files) ==
    /\ file \in files
    /\ cache = [filled |-> FALSE, table |-> <<>>]
    /\ reads = 0
    /\ hit = FALSE
    /\ Fresh

NoPure ==
    /\ cell = <<>>
    /\ coerced = Pending
    /\ x = NaN
    /\ rendered = NoRender

Init == InitSession(Files(Catalogue)) /\ NoPure

\* load_data without the decorator
CacheServes_Never == FALSE

\* @st.cache_data (line 18): load_data takes no argument, so the one entry
\* serves every call once it is filled
CacheServes == cache.filled

\* df = load_data() (line 41)
LoadData ==
    /\ pc = "start"
    /\ IF CacheServes
       THEN /\ df' = cache.table
            /\ hit' = TRUE
            /\ pc' = "loaded"
            /\ UNCHANGED <<cache, reads, outcome>>
       ELSE IF ~file.exists
       THEN /\ pc' = "crashed"
            /\ outcome' = "FileNotFoundError"
            /\ hit' = FALSE
            /\ UNCHANGED <<cache, reads, df>>
       ELSE /\ reads < MaxReads
            /\ df' = load_data_body(file.rows)
            /\ cache' = [filled |-> TRUE, table |-> df']
            /\ reads' = reads + 1
            /\ hit' = FALSE
            /\ pc' = "loaded"
            /\ UNCHANGED outcome
    /\ UNCHANGED <<file, df_focus, yearly_total, year_selected, ministry_selected,
                   metrics, df_2014, df_2024, data, cell, coerced, x, rendered>>

\* line 55 grouping df instead of df_focus
TotalsSource_AllMinistries(focus, full) == full

\* the table the yearly totals are grouped from (line 55)
TotalsSource(focus, full) == focus

\* lines 52-60
BuildFocus ==
    /\ pc = "loaded"
    /\ LET focus == FocusFilter(df)
           yt == YearlyTotal(TotalsSource(focus, df))
       IN  /\ yearly_total' = yt
           /\ df_focus' = MergeShare(focus, yt)
    /\ pc' = "focus"
    /\ UNCHANGED <<file, cache, reads, hit, outcome, df, year_selected,
                   ministry_selected, metrics, df_2014, df_2024, data,
                   cell, coerced, x, rendered>>

\* lines 74-80
Sidebar ==
    /\ pc = "focus"
    /\ year_selected' \in Selectbox(YearOptions(df_focus, df))
    /\ ministry_selected' \in Selectbox(MinistryOptions(df_focus))
    /\ pc' = "sidebar"
    /\ UNCHANGED <<file, cache, reads, hit, outcome, df, df_focus, yearly_total,
                   metrics, df_2014, df_2024, data, cell, coerced, x, rendered>>

\* lines 90-106
InsightCards ==
    /\ pc = "sidebar"
    /\ IF IlocRaises(CardFrames(df_focus))
       THEN /\ pc' = "crashed"
            /\ outcome' = "IndexError"
            /\ UNCHANGED metrics
       ELSE /\ pc' = "cards"
            /\ metrics' = CardValues(df_focus)
            /\ UNCHANGED outcome
    /\ UNCHANGED <<file, cache, reads, hit, df, df_focus, yearly_total,
                   year_selected, ministry_selected, df_2014, df_2024, data,
                   cell, coerced, x, rendered>>

\* lines 109-145
Sankey ==
    /\ pc = "cards"
    /\ df_2014' = RowsOfYear(df_focus, Y2014)
    /\ df_2024' = RowsOfYear(df_focus, Y2024)
    /\ pc' = "sankey"
    /\ UNCHANGED <<file, cache, reads, hit, outcome, df, df_focus, yearly_total,
                   year_selected, ministry_selected, metrics, data,
                   cell, coerced, x, rendered>>

\* lines 148-212: the trend and area charts read df_focus only; line 182
\* builds the deep-dive frame
DeepDive ==
    /\ pc = "sankey"
    /\ data' = RowsOfMinistry(df_focus, ministry_selected.v)
    /\ pc' = "done"
    /\ outcome' = "ok"
    /\ UNCHANGED <<file, cache, reads, hit, df, df_focus, yearly_total,
                   year_selected, ministry_selected, metrics, df_2014, df_2024,
                   cell, coerced, x, rendered>>

\* Streamlit executes the script again from the top; the cache outlives the run
Rerun ==
    /\ pc \in {"done", "crashed"}
    /\ pc' = "start"
    /\ outcome' = "running"
    /\ df' = <<>>
    /\ df_focus' = <<>>
    /\ yearly_total' = <<>>
    /\ year_selected' = None
    /\ ministry_selected' = None
    /\ metrics' = NoMetrics
    /\ df_2014' = <<>>
    /\ df_2024' = <<>>
    /\ data' = <<>>
    /\ UNCHANGED <<file, cache, reads, hit, cell, coerced, x, rendered>>

\* budget.csv is rewritten, or removed, while the session runs
ChangeFile ==
    /\ file' \in Files(CacheCatalogue) \ {file}
    /\ UNCHANGED <<cache, reads, hit, pc, outcome, df, df_focus, yearly_total,
                   year_selected, ministry_selected, metrics, df_2014, df_2024,
                   data, cell, coerced, x, rendered>>

Next ==
    \/ LoadData
    \/ BuildFocus
    \/ Sidebar
    \/ InsightCards
    \/ Sankey
    \/ DeepDive
    \/ Rerun

Spec == Init /\ [][Next]_vars

InitCache == InitSession(Files(CacheCatalogue)) /\ NoPure

NextCache == Next \/ ChangeFile

SpecCache == InitCache /\ [][NextCache]_vars

\* the numeric coercion of line 32 applied to one cell
CoerceCell ==
    /\ coerced = Pending
    /\ coerced' = Coerce(cell)
    /\ UNCHANGED <<scriptVars, cell, x, rendered>>

InitCoerce ==
    /\ InitSession({Absent})
    /\ cell \in Cells
    /\ coerced = Pending
    /\ x = NaN
    /\ rendered = NoRender

SpecCoerce == InitCoerce /\ [][CoerceCell]_vars

\* a call of inr
CallInr ==
    /\ rendered = NoRender
    /\ rendered' = inr(x)
    /\ UNCHANGED <<scriptVars, cell, coerced, x>>

InitInr ==
    /\ InitSession({Absent})
    /\ cell = <<>>
    /\ coerced = Pending
    /\ x \in Amounts
    /\ rendered = NoRender

SpecInr == InitInr /\ [][CallInr]_vars

-----------------------------------------------------------------------------
(* Properties *)

Present(a) == ~IsNaN(a)

\* the run has executed the sidebar
Selected ==
    \/ pc \in {"sidebar", "cards", "sankey", "done"}
    \/ pc = "crashed" /\ outcome = "IndexError"

\* the run has executed the four .iloc[0] lookups
CardsShown == pc \in {"cards", "sankey", "done"}

RECURSIVE SumAll(_)
SumAll(vals) == IF vals = <<>> THEN Num(0) ELSE FAdd(vals[1], SumAll(Tail(vals)))

PctOfYear(y) ==
    LET rows == RowsOfYear(df_focus, y)
    IN  [i \in DOMAIN rows |-> rows[i].pct]

NoMissingIn(y) ==
    LET rows == RowsOfYear(df_focus, y)
    IN  \A i \in DOMAIN rows : Present(rows[i].total)

YearTotalOf(y) == RowsOfYear(df_focus, y)[1].total_total

C2_SharesSumTo100 ==
    \A y \in YearsOf(df_focus) :
        NoMissingIn(y) => SumAll(PctOfYear(y)) = Num(100)

\* C2 amended: for every year of the merged df_focus none of whose rows has a
\* missing Total Allocation and whose year total is not zero, the shares of
\* that year's rows sum to 100
C2_SharesSumTo100NonZero ==
    \A y \in YearsOf(df_focus) :
        (NoMissingIn(y) /\ YearTotalOf(y) # Num(0))
            => SumAll(PctOfYear(y)) = Num(100)

\* C2 witness: a year with two rows, 300 and 100, whose shares are 75 and 25
C2_Witness ==
    /\ pc = "focus"
    /\ \E y \in YearsOf(df_focus) :
          /\ NoMissingIn(y)
          /\ YearTotalOf(y) = Num(400)
          /\ PctOfYear(y) = <<Num(75), Num(25)>>

\* the text with its "," characters removed
StripCommas(s) == SelectSeq(s, LAMBDA c : c # ",")

\* digits in groups: the groups after the first are of two or three digits,
\* the last of three
RECURSIVE TailGroups(_)
TailGroups(t) ==
    \/ Len(t) = 3 /\ AllDigits(t)
    \/ \E g \in {2, 3} :
          /\ Len(t) > g + 1
          /\ AllDigits(SubSeq(t, 1, g))
          /\ t[g + 1] = ","
          /\ TailGroups(SubSeq(t, g + 2, Len(t)))

\* a number written with thousands separators, as in 1,50,000 or 150,000
IsSeparated(s) ==
    \E p \in 2..Min(4, Len(s)) :
        /\ s[p] = ","
        /\ AllDigits(SubSeq(s, 1, p - 1))
        /\ TailGroups(SubSeq(s, p + 1, Len(s)))

\* C3: a cell holding a number written with comma separators coerces to the
\* number that the same digits without separators coerce to, not to missing
C3_CommaRoundTrip ==
    (coerced # Pending /\ IsSeparated(cell))
        => (coerced = Coerce(StripCommas(cell)) /\ Present(coerced))

\* C4: when one of the (ministry, year) lookups of the insight cards has no
\* matching row, the run ends in a "no data for selection" outcome, never in
\* an index error
C4_NoDataNotIndexError ==
    (Selected /\ pc # "sidebar" /\ IlocRaises(CardFrames(df_focus)))
        => outcome = "NoData"

\* C5: a year in which some watchlist row has a missing Total Allocation has
\* a missing year total
C5_MissingPropagatesToYearTotal ==
    \A j \in DOMAIN yearly_total :
        (\E i \in DOMAIN df_focus :
            df_focus[i].year = yearly_total[j].year /\ IsNaN(df_focus[i].total))
            => IsNaN(yearly_total[j].total)

ZeroOrMissing(a) == IsNaN(a) \/ a = Num(0)

Displayable(a) == a.k \notin {"nan", "inf", "ninf"}

\* C6: every row of a year whose total is zero or missing has a missing
\* share, never an infinite one, and no NaN or infinite share of such a year
\* is handed to the insight cards
C6_ZeroTotalShareMissing ==
    /\ \A i \in DOMAIN df_focus :
          ZeroOrMissing(df_focus[i].total_total) => IsNaN(df_focus[i].pct)
    /\ CardsShown =>
          /\ ZeroOrMissing(YearTotalOf(Y2014)) =>
                Displayable(metrics.agri_share_2014) /\ Displayable(metrics.delta)
          /\ ZeroOrMissing(YearTotalOf(Y2024)) =>
                Displayable(metrics.agri_share_2024) /\ Displayable(metrics.delta)

MinistriesOf(tbl) == {tbl[i].name : i \in DOMAIN tbl}

C8_CanonicalNames ==
    \A i \in DOMAIN df :
        /\ ReplaceName(df[i].name) = df[i].name
        /\ file.rows[i].name \notin {AGRI_OLD, AGRI_FW} =>
              df[i].name = file.rows[i].name
        /\ file.rows[i].name \in {AGRI_OLD, AGRI_FW} =>
              /\ df[i].name = AGRI_CANON
              /\ df[i].name \in Range(focus_ministries)

\* C8 witness: a merged table fed by both variants and by an unmapped name
C8_Witness ==
    /\ pc = "focus"
    /\ \E i \in DOMAIN df : file.rows[i].name = AGRI_OLD
    /\ \E i \in DOMAIN df : file.rows[i].name = AGRI_FW
    /\ \E i \in DOMAIN df : file.rows[i].name = RAILWAYS /\ df[i].name = RAILWAYS
    /\ Len(RowsOfMinistry(df_focus, AGRI_CANON)) >= 2

\* C9: an amount of at least 100000 is rendered in Lakh Cr as x/100000 with
\* one decimal, one of at least 1000 and below 100000 in Thousand Cr as
\* x/1000 with no decimal, one below 1000 in Cr as x with no decimal
C9_UnitByMagnitude ==
    (rendered # NoRender /\ IsNum(x)) =>
        /\ x.n >= 100000 * x.d =>
              rendered = [unit |-> "Lakh Cr", value |-> Rat(x.n, 100000 * x.d),
                          decimals |-> 1]
        /\ (x.n >= 1000 * x.d /\ x.n < 100000 * x.d) =>
              rendered = [unit |-> "Thousand Cr", value |-> Rat(x.n, 1000 * x.d),
                          decimals |-> 0]
        /\ x.n < 1000 * x.d =>
              rendered = [unit |-> "Cr", value |-> x, decimals |-> 0]
        /\ rendered.unit \in {"Lakh Cr", "Thousand Cr", "Cr"}

\* C9 witness: the boundary amount 100000 rendered as 1.0 Lakh Cr
C9_Witness ==
    /\ x = Num(100000)
    /\ rendered = [unit |-> "Lakh Cr", value |-> Num(1), decimals |-> 1]

\* C10: over the runs of a session the file is read and parsed at most
\* once, and the table a run works on is the one computed by that read
C10_ReadAtMostOnce ==
    /\ reads <= 1
    /\ cache.filled <=> reads = 1
    /\ pc \in {"loaded", "focus", "sidebar", "cards", "sankey", "done"} =>
          df = cache.table

\* C10 witness: a later run served from the cache although the file on disk
\* now holds other rows
C10_Witness ==
    /\ pc = "loaded"
    /\ hit
    /\ reads = 1
    /\ file.exists
    /\ df # load_data_body(file.rows)

====
